---- MODULE Spec2Model ----
(***************************************************************************)
(* Model of the index-management-aware sync script (src/unnamed/part_000): *)
(* one process invocation is a chain of awaited remote calls; every action *)
(* below is the continuation that runs when the awaited call settles, up   *)
(* to and including the issue of the next call.  The destination index     *)
(* (esIndex, docs) outlives an invocation; everything else is per process. *)
(***************************************************************************)
EXTENDS Integers, Sequences, FiniteSets, TLC

MaxItems == 2      \* longest page the source returns in the model
MaxRuns == 2       \* invocations of the script against the same destination
MaxArgs == 2       \* most positional arguments on the command line

Ids == 1..MaxItems                     \* item.sys.id values

\* pages the source can return: sequences of items with distinct ids
Pages == {p \in UNION {[1..n -> Ids] : n \in 0..MaxItems} :
            \A i, j \in DOMAIN p : i # j => p[i] # p[j]}

VARIABLES
  pc,             \* "start", the call being awaited, or "done"
  argc,           \* program.args.length
  RESET,          \* program.reset
  CREATE_INDEX,   \* program.createIndex (false under --no-create-index)
  response,       \* doSync: "unset", "undefined" (catch ran) or "ok"
  items,          \* response.items
  esIndexExists,  \* postItems: "unset", "undefined", "true" or "false"
  idx,            \* position of the for-of loop in items
  fails,          \* postItems: var fails
  status,         \* value returned by doSync, -1 while there is none
  exitStatus,     \* process exit status, -1 while the process runs
  thrown,         \* an exception reached the catch of the main IIFE
  log,            \* remote calls of this invocation, in issue order
  esIndex,        \* destination: the index INDEX_NAME exists
  docs,           \* destination: ids of the documents held by the index
  run,            \* number of the current invocation
  prevExit        \* exit status of the previous invocation, -1 if none

vars == <<pc, argc, RESET, CREATE_INDEX, response, items, esIndexExists, idx,
          fails, status, exitStatus, thrown, log, esIndex, docs, run, prevExit>>

cfg == <<argc, RESET, CREATE_INDEX>>
dest == <<esIndex, docs>>
runs == <<run, prevExit>>

----------------------------------------------------------------------------
(* Decisions of the script, one operator per condition of the source.      *)

ArgsOKLoose(n) == n <= 1
ArgsOK(n) == n = 1

Truthy(v) == v \in {"ok", "true", "nack"}

Rejected(out) == out \in {"fault", "refused"}

ShouldPostAnyPage(resp, its) == Truthy(resp)
ShouldPost(resp, its) == Truthy(resp) /\ Len(its) > 0

NeedDeleteNever(reset, exists) == FALSE
NeedDelete(reset, exists) == reset /\ exists

NeedCreateIgnoringExists(create, reset, exists) == create \/ reset
NeedCreate(create, reset, exists) == (create /\ ~exists) \/ reset

CountFailAlways(f, out) == f + 1
CountFail(f, out) == IF Rejected(out) THEN f + 1 ELSE f

LoopNextAbortOnFail(i, out, n) == IF Rejected(out) THEN n + 1 ELSE i + 1
LoopNext(i, out, n) == i + 1

ExitCode(st) == IF st # 0 THEN 1 ELSE 0

----------------------------------------------------------------------------
(* The call log.                                                           *)

Issue(l, c, i) == Append(l, [call |-> c, id |-> i, out |-> "pending"])

SettleNotAwaited(l, o) == l
Settle(l, o) == [l EXCEPT ![Len(l)].out = o]

----------------------------------------------------------------------------
(* What the destination answers, and what the call does to it.             *)

ExistsOutcomes == {IF esIndex THEN "true" ELSE "false", "fault"}

DeleteOutcomes == IF esIndex THEN {"ok", "nack", "fault"} ELSE {"refused", "fault"}

CreateOutcomes == IF esIndex THEN {"refused", "fault"} ELSE {"ok", "nack", "fault"}

WriteOutcomes(id) == IF id \in docs THEN {"refused", "fault"} ELSE {"ok", "fault"}

----------------------------------------------------------------------------
(* Control transfer shared by the continuations.                           *)

Ctl(p, l, i, f, st, ex, th) ==
  /\ pc' = p
  /\ log' = l
  /\ idx' = i
  /\ fails' = f
  /\ status' = st
  /\ exitStatus' = ex
  /\ thrown' = th

\* process.exit(code)
Exit(l, i, f, st, code) == Ctl("done", l, i, f, st, code, FALSE)

\* an exception unwinds to the catch of the main IIFE, which only logs:
\* the process ends when nothing is pending, with the default status 0
Throw(l) == Ctl("done", l, idx, fails, -1, 0, TRUE)

\* the for-of loop of postItems at position i, then return fails and
\* process.exit(status ? 1 : 0)
PublishFrom(l, i, f) ==
  IF i <= Len(items)
    THEN Ctl("write", Issue(l, "write", items[i]), i, f, -1, -1, FALSE)
    ELSE Exit(l, i, f, f, ExitCode(f))

\* create index if not exists, else return 1, else publish
CreateStep(l, exists) ==
  IF NeedCreate(CREATE_INDEX, RESET, exists)
    THEN Ctl("create", Issue(l, "create", 0), 0, 0, -1, -1, FALSE)
    ELSE IF ~exists
      THEN Exit(l, 0, 0, 1, ExitCode(1))
      ELSE PublishFrom(l, 1, 0)

----------------------------------------------------------------------------
Init ==
  /\ pc = "start"
  /\ argc \in 0..MaxArgs
  /\ RESET \in BOOLEAN
  /\ CREATE_INDEX \in BOOLEAN
  /\ response = "unset"
  /\ items = <<>>
  /\ esIndexExists = "unset"
  /\ idx = 0
  /\ fails = 0
  /\ status = -1
  /\ exitStatus = -1
  /\ thrown = FALSE
  /\ log = <<>>
  /\ esIndex \in BOOLEAN
  /\ docs = {}
  /\ run = 1
  /\ prevExit = -1

\* module top level and the main IIFE up to the health probe
Startup ==
  /\ pc = "start"
  /\ IF ~ArgsOK(argc)
       THEN Exit(log, 0, 0, -1, 1)
       ELSE Ctl("health", Issue(log, "health", 0), 0, 0, -1, -1, FALSE)
  /\ UNCHANGED <<cfg, response, items, esIndexExists, dest, runs>>

\* main IIFE after the health probe; doSync up to getEntries
OnHealth ==
  /\ pc = "health"
  /\ \E out \in {"ok", "fault"} :
       LET l == Settle(log, out) IN
       IF Truthy(out)
         THEN Ctl("fetch", Issue(l, "getEntries", 0), 0, 0, -1, -1, FALSE)
         ELSE Exit(l, 0, 0, -1, 1)
  /\ UNCHANGED <<cfg, response, items, esIndexExists, dest, runs>>

\* doSync after getEntries; postItems up to indices.exists
OnEntries ==
  /\ pc = "fetch"
  /\ \E out \in {"ok", "fault"}, page \in Pages :
       LET l == Settle(log, out) IN
       /\ response' = IF Rejected(out) THEN "undefined" ELSE "ok"
       /\ items' = IF Rejected(out) THEN <<>> ELSE page
       /\ Rejected(out) => page = <<>>
       /\ IF ShouldPost(response', items')
            THEN Ctl("exists", Issue(l, "exists", 0), 0, 0, -1, -1, FALSE)
            ELSE Exit(l, 0, 0, 1, ExitCode(1))
  /\ UNCHANGED <<cfg, esIndexExists, dest, runs>>

\* postItems after indices.exists
OnExists ==
  /\ pc = "exists"
  /\ \E out \in ExistsOutcomes :
       LET l == Settle(log, out) IN
       /\ esIndexExists' = IF Rejected(out) THEN "undefined" ELSE out
       /\ IF NeedDelete(RESET, Truthy(esIndexExists'))
            THEN Ctl("delete", Issue(l, "delete", 0), 0, 0, -1, -1, FALSE)
            ELSE CreateStep(l, Truthy(esIndexExists'))
  /\ UNCHANGED <<cfg, response, items, dest, runs>>

\* postItems after indices.delete: res.acknowledged is read
OnDelete ==
  /\ pc = "delete"
  /\ \E out \in DeleteOutcomes :
       LET l == Settle(log, out) IN
       /\ IF Rejected(out)
            THEN Throw(l)
            ELSE CreateStep(l, Truthy(esIndexExists))
       /\ esIndex' = IF Rejected(out) THEN esIndex ELSE FALSE
       /\ docs' = IF Rejected(out) THEN docs ELSE {}
  /\ UNCHANGED <<cfg, response, items, esIndexExists, runs>>

\* postItems after indices.create: esIndexCreate.acknowledged is read
OnCreate ==
  /\ pc = "create"
  /\ \E out \in CreateOutcomes :
       LET l == Settle(log, out) IN
       /\ IF Rejected(out)
            THEN Throw(l)
            ELSE PublishFrom(l, 1, 0)
       /\ esIndex' = IF Rejected(out) THEN esIndex ELSE TRUE
  /\ UNCHANGED <<cfg, response, items, esIndexExists, docs, runs>>

\* postItems after esClient.create of items[idx]
OnWrite ==
  /\ pc = "write"
  /\ \E out \in WriteOutcomes(items[idx]) :
       LET l == Settle(log, out) IN
       /\ PublishFrom(l, LoopNext(idx, out, Len(items)), CountFail(fails, out))
       /\ docs' = IF Rejected(out) THEN docs ELSE docs \cup {items[idx]}
       /\ esIndex' = IF Rejected(out) THEN esIndex ELSE TRUE
  /\ UNCHANGED <<cfg, response, items, esIndexExists, runs>>

\* the script is invoked again against the same destination
NextRun ==
  /\ pc = "done"
  /\ run < MaxRuns
  /\ run' = run + 1
  /\ prevExit' = exitStatus
  /\ argc' \in 0..MaxArgs
  /\ RESET' \in BOOLEAN
  /\ CREATE_INDEX' \in BOOLEAN
  /\ response' = "unset"
  /\ items' = <<>>
  /\ esIndexExists' = "unset"
  /\ Ctl("start", <<>>, 0, 0, -1, -1, FALSE)
  /\ UNCHANGED dest

Next ==
  \/ Startup
  \/ OnHealth
  \/ OnEntries
  \/ OnExists
  \/ OnDelete
  \/ OnCreate
  \/ OnWrite
  \/ NextRun

Spec == Init /\ [][Next]_vars

----------------------------------------------------------------------------
(* Views of the call log used by the properties.                           *)

IsWrite(e) == e.call = "write"

Writes == SelectSeq(log, IsWrite)

WriteIds == [i \in 1..Len(Writes) |-> Writes[i].id]

OkWrites == {i \in DOMAIN log : log[i].call = "write" /\ log[i].out = "ok"}

FailedWrites == {i \in DOMAIN log : log[i].call = "write" /\ Rejected(log[i].out)}

Settled(i) == log[i].out # "pending"

IndexCalls == {"exists", "delete", "create", "write"}

DestinationCalls == IndexCalls \cup {"health"}

NoFault == \A i \in DOMAIN log : log[i].out # "fault"

FetchAborted == response = "undefined" \/ (response = "ok" /\ Len(items) = 0)

IndexReady ==
  \/ esIndexExists = "true"
  \/ \E i \in DOMAIN log : log[i].call = "create" /\ Truthy(log[i].out)

ManagementFailed ==
  \E i \in DOMAIN log : log[i].call \in {"delete", "create"} /\ Rejected(log[i].out)

----------------------------------------------------------------------------
\* C1: a finished run has exit status 0 exactly when the fetch succeeded,
\* returned at least one item, the index was ready and every per-item
\* publish succeeded; every other finished run has exit status 1.
C1_ExitStatusIff ==
  pc = "done" =>
    /\ exitStatus \in {0, 1}
    /\ exitStatus = 0 <=>
         /\ ArgsOK(argc)
         /\ response = "ok"
         /\ Len(items) > 0
         /\ IndexReady
         /\ Cardinality(OkWrites) = Len(items)

\* C2: with --no-create-index set and the index found absent, no document
\* write is issued and the run exits with status 1, whatever --reset is.
C2_NoCreateNoPublish ==
  (~CREATE_INDEX /\ esIndexExists = "false") =>
    /\ Writes = <<>>
    /\ pc = "done" => exitStatus = 1

\* C3: with --reset set and the index found, a create call is issued only
\* after the delete call has completed, and a document write is issued only
\* after the create call (itself after the delete) has completed.
C3_DeleteCreatePublishOrder ==
  (RESET /\ esIndexExists = "true") =>
    \A i \in DOMAIN log :
      /\ log[i].call = "create" =>
           \E j \in 1..(i - 1) : log[j].call = "delete" /\ Settled(j)
      /\ log[i].call = "write" =>
           \E j \in 1..(i - 1) :
             /\ log[j].call = "create" /\ Settled(j)
             /\ \E k \in 1..(j - 1) : log[k].call = "delete" /\ Settled(k)

C3_Witness ==
  /\ RESET /\ esIndexExists = "true"
  /\ \E i \in DOMAIN log : log[i].call = "write" /\ log[i].out = "ok"

\* C4: a run in which the index delete or the index create call failed
\* still issues one write per fetched item, and its exit status is decided
\* by the per-item failure count alone.
C4_ManagementFailureTolerated ==
  (pc = "done" /\ ManagementFailed) =>
    /\ Len(Writes) = Len(items)
    /\ exitStatus = IF fails > 0 THEN 1 ELSE 0

\* C5: the writes issued are the fetched items in fetch order, one each:
\* a prefix of the page while the loop runs and the whole page once a run
\* that reached the loop has finished, whatever the earlier writes returned.
C5_OneAttemptPerItemInOrder ==
  /\ Len(WriteIds) <= Len(items)
  /\ \A i \in DOMAIN WriteIds : WriteIds[i] = items[i]
  /\ pc = "write" => Len(WriteIds) = idx
  /\ (pc = "done" /\ Writes # <<>>) => Len(WriteIds) = Len(items)

C5_Witness ==
  /\ pc = "done"
  /\ Len(items) >= 2
  /\ Len(Writes) = Len(items)
  /\ Rejected(Writes[1].out)
  /\ Writes[2].out = "ok"

\* C6: a run against an index populated by an earlier successful run, with
\* no call lost to a fault, has every write accepted again: it counts zero
\* failures and exits with status 0.
C6_RerunSucceeds ==
  (run > 1 /\ prevExit = 0 /\ pc = "done" /\ NoFault /\ Writes # <<>>) =>
    /\ fails = 0
    /\ exitStatus = 0

\* C7 as stated: a run whose fetch failed or returned no item exits with
\* status 1 and never contacts the destination.
C7_NoDestinationContact ==
  FetchAborted =>
    /\ pc = "done" /\ exitStatus = 1
    /\ \A i \in DOMAIN log : log[i].call \notin DestinationCalls

\* C7 as amended: a run whose fetch failed or returned no item exits with
\* status 1 without any index-exists, index-create, index-delete or
\* document-write call; the one destination call of such a run is the
\* health probe, completed before the fetch was issued.
C7_NoIndexCallAfterAbort ==
  FetchAborted =>
    /\ pc = "done" /\ exitStatus = 1 /\ status = 1
    /\ \A i \in DOMAIN log : log[i].call \notin IndexCalls
    /\ Len(log) = 2
    /\ log[1].call = "health" /\ log[1].out = "ok"
    /\ log[2].call = "getEntries" /\ Settled(2)

C7_Witness ==
  /\ response = "ok" /\ items = <<>>
  /\ pc = "done" /\ exitStatus = 1

\* C8: an invocation without the positional argument exits with status 1
\* and issues no remote call.
C8_MissingArgument ==
  argc = 0 =>
    /\ log = <<>>
    /\ pc = "start" \/ (pc = "done" /\ exitStatus = 1)

C8_Witness == argc = 0 /\ pc = "done" /\ exitStatus = 1 /\ log = <<>>

\* C9: the failure counter stays between 0 and the number of writes
\* attempted, equals the number of writes that failed, and a run that went
\* through the loop returns it: non-zero result and exit status 1 exactly
\* when it is positive.
C9_FailureCounter ==
  /\ 0 <= fails /\ fails <= Len(Writes)
  /\ fails = Cardinality(FailedWrites)
  /\ (pc = "done" /\ Writes # <<>>) =>
       /\ status = fails
       /\ exitStatus = 1 <=> fails > 0
       /\ exitStatus = 0 <=> fails = 0

C9_Witness ==
  /\ pc = "done"
  /\ Len(Writes) = 2
  /\ fails = 1
  /\ exitStatus = 1

\* C10: with the index found and --reset not set, no index delete and no
\* index create call is issued; every call after the existence check is a
\* document write, whatever the create-index flag is.
C10_ExistingIndexUntouched ==
  (esIndexExists = "true" /\ ~RESET) =>
    \A i \in DOMAIN log :
      /\ log[i].call \notin {"delete", "create"}
      /\ \A j \in 1..(i - 1) : log[j].call = "exists" => log[i].call = "write"

C10_Witness ==
  /\ esIndexExists = "true" /\ ~RESET /\ CREATE_INDEX
  /\ pc = "done"
  /\ Len(Writes) = Len(items)

Pending == {i \in DOMAIN log : log[i].out = "pending"}

\* C11: at most one remote call is outstanding: only the call issued last
\* can be in flight, every call before it has completed or failed, and a
\* write is never issued while an earlier write is in flight.
C11_OneOutstandingCall ==
  /\ Cardinality(Pending) <= 1
  /\ \A i \in Pending : i = Len(log)
  /\ \A i \in DOMAIN Writes : Writes[i].out = "pending" => i = Len(Writes)

C11_Witness ==
  /\ pc = "write"
  /\ Len(Writes) = 2
  /\ Writes[1].out # "pending"
  /\ Writes[2].out = "pending"
  /\ Pending = {Len(log)}

\* C12: an existence check that failed is handled like an absent index:
\* with creation enabled or --reset set a create call is issued (and no
\* delete) and the finished run has attempted the publish of every item;
\* with --no-create-index and no --reset the run ends with result 1 and no
\* create and no write.
C12_FailedCheckLikeAbsent ==
  esIndexExists = "undefined" =>
    /\ (CREATE_INDEX \/ RESET) =>
         /\ \E i \in DOMAIN log : log[i].call = "create"
         /\ \A i \in DOMAIN log : log[i].call # "delete"
         /\ pc = "done" => Len(Writes) = Len(items)
    /\ (~CREATE_INDEX /\ ~RESET) =>
         /\ pc = "done" /\ status = 1 /\ exitStatus = 1
         /\ \A i \in DOMAIN log : log[i].call \notin {"delete", "create", "write"}

====
